---- MODULE Spec2Model ----
(***************************************************************************)
(* A model of ia2audio's capture-and-transcription pipeline:               *)
(*   - the transcription stage (src/src/transcribe-book-content.ts,        *)
(*     first main): one async task per page image, gathered by             *)
(*     Promise.all, filtered, sorted and written to content.json;          *)
(*   - the capture run of captureIaBook (src/unnamed/part_000): reader     *)
(*     discovery, then the sequential loop that observes the viewer,       *)
(*     captures a spread, writes it and advances;                          *)
(*   - the export stage (src/src/transcribe-book-content.ts, second        *)
(*     main): content.json and metadata.json assembled into book.md.       *)
(* The stages share no runtime state; each has its own specification over  *)
(* its own variables: SpecTranscribe, SpecRetry (one image, long response  *)
(* sequences), SpecCapture, SpecAssemble, SpecFold (the text fold alone),  *)
(* SpecClean (the cleaning of a response text alone), SpecStages (the      *)
(* transcription and the export stage from their preconditions on),        *)
(* SpecNames (the page files' names, written and parsed).                  *)
(***************************************************************************)
EXTENDS Integers, Sequences, FiniteSets, TLC

(***************************************************************************)
(* Bounds of the model.                                                    *)
(***************************************************************************)
\* number of page images found by the glob
NumImages == 2

\* values of OCR_MAX_RETRIES and OCR_CONCURRENCY the runs are configured with
MaxRetriesValues == {1, 2}
ConcurrencyValues == {1, 2}

\* values of OCR_MAX_RETRIES of the runs that follow one image through a
\* long sequence of responses
DeepRetriesValues == {3, 12}

\* the (capture index, page number) pairs the page file names may encode
FileNames ==
  { [index |-> 0, page |-> 1], [index |-> 0, page |-> 2], [index |-> 1, page |-> 1] }

(***************************************************************************)
(* JavaScript values.                                                      *)
(***************************************************************************)
\* an absent optional number (TocItem.page, the viewer's page number)
undefined == -7
\* Number.MAX_SAFE_INTEGER, cut to the integer range of the model checker;
\* every page number of the model is far below it
MAX_SAFE_INTEGER == 2147483647

\* a ?? b
Coalesce(a, b) == IF a = undefined THEN b ELSE a

Min(a, b) == IF a < b THEN a ELSE b

(***************************************************************************)
(* The recognition service.  A response either throws (service error,      *)
(* rate limit, no text content) or carries a text; of the cleaned text the *)
(* code reads its length and whether it matches /i'm sorry/i.              *)
(***************************************************************************)
Responses ==
  { [throws |-> TRUE,  len |-> 0,   sorry |-> FALSE],
    [throws |-> FALSE, len |-> 0,   sorry |-> FALSE],
    [throws |-> FALSE, len |-> 99,  sorry |-> TRUE],
    [throws |-> FALSE, len |-> 99,  sorry |-> FALSE],
    [throws |-> FALSE, len |-> 100, sorry |-> TRUE] }

\* the cleaned text of a response, as the features the code tests
CleanText(res) == [len |-> res.len, sorry |-> res.sorry]

IsEmptyTextNever(text) == FALSE
\* !text
IsEmptyText(text) == text.len = 0

\* the length below which an apology counts as a refusal
RefusalMaxLen == 100

\* text.length < 100 && /i'm sorry/i.test(text)
IsRefusal(text) == text.len < RefusalMaxLen /\ text.sorry

VARIABLES
  \* ---- transcription stage ----
  pageScreenshots,   \* the globbed page images, in glob order
  concurrency,       \* Number(OCR_CONCURRENCY)
  maxRetriesDefault, \* Number(OCR_MAX_RETRIES)
  tpc,               \* per image: where its async task stands
  retries,           \* per image: the task's local retries counter
  hist,              \* per image: the responses received so far
  calls,             \* per image: recognition requests issued so far
  requests,          \* per image: the parameters of each request issued
  waitMs,            \* per image: the delay being slept, 0 when none
  waits,             \* per image: the delays slept so far, [attempt, ms] each
  results,           \* per image: the Promise.all slot, <<>> or <<chunk>>
  completed,         \* the images in the order their tasks settled
  contentJson,       \* content.json: <<>> when absent, else <<chunk list>>
  mainpc             \* the stage: "start", "running", "written", "aborted"

tvars == << pageScreenshots, concurrency, maxRetriesDefault, tpc, retries, hist,
            calls, requests, waitMs, waits, results, completed, contentJson, mainpc >>

\* the images of the run
Images == 1..Len(pageScreenshots)

\* cap on the recognition calls of one image (the empty-response loop of the
\* code has no bound of its own): one more than the run's retry bound
MaxCalls == maxRetriesDefault + 1

VARIABLES
  \* ---- capture stage: the viewer (environment) ----
  viewer,            \* what the remote viewer shows: [page, sig, img]
  frozen,            \* the viewer no longer reacts to any navigation action
  frozenAt,          \* pages captured when the viewer froze, -1 before
  \* ---- capture stage: captureIaBook ----
  viewerTotal,       \* the total the viewer reports, or undefined
  maxPagesEnv,       \* Number(IA_MAX_PAGES || '0')
  maxVerifyRetries,  \* Number(IA_MAX_RETRIES ?? '10')
  total,             \* lines 373-388
  captureUntil,      \* line 394
  cpc,               \* where the capture loop stands
  i,                 \* the loop counter
  st,                \* the loop's last observation [page, sig]
  brBefore,          \* the observation the capture is recorded under
  tried,             \* the retry counter of the guard
  advFrom,           \* the call site of the running advanceOnce
  advStep,           \* the strategy advanceOnce is at: 1, 2, 3
  lastSig, lastPageNum, lastHash,
  hash,              \* the hash of the candidate screenshot
  firstHash,         \* the hash of the candidate's first screenshot
  recaptures,        \* recaptures made for the candidate
  pages,             \* the PageChunk records pushed so far
  files,             \* the content hash of each page image written, in order
  decision,          \* the last advancement decision taken
  metadataJson,      \* metadata.json: <<>> when absent, else <<metadata>>
  discovery,         \* reader discovery: "pending", "fallback", "found", "missing"
  changeSeen,        \* since the last write, an advance was seen to take effect
  extraNav,          \* since the last write, an advance was issued after that
  navBeforeFirst,    \* an advance was issued before the first write
  attempt,           \* the strategies of the advanceOnce call under way or last
                     \* returned: [strategy, page, sig, changed] each
  episode,           \* this iteration's retry loop: what each advanceOnce returned
  borrows,           \* this iteration's retry loop: borrow retries made
  waitTrace          \* the gates passed by the stability wait before the capture

cvars == << viewer, frozen, frozenAt, viewerTotal, maxPagesEnv, maxVerifyRetries,
            total, captureUntil, cpc, i, st, brBefore, tried, advFrom, advStep,
            lastSig, lastPageNum, lastHash, hash, firstHash, recaptures, pages,
            files, decision, metadataJson, discovery, changeSeen, extraNav,
            navBeforeFirst, attempt, episode, borrows, waitTrace >>

VARIABLES
  \* ---- export stage: the files ----
  contentFile,       \* content.json: the chunk list
  metadataFile,      \* metadata.json: <<>> when absent or unreadable, else <<metadata>>
  bookMd,            \* book.md: <<>> when absent, else <<document>>
  \* ---- export stage: main ----
  metadata,          \* the metadata in use: [meta, toc]
  contentSorted,     \* lines 170-175
  lastTocItemIndex,  \* lines 192-198
  ai,                \* the section loop's i
  aindex,            \* the section loop's index, the chunk cursor
  output,            \* the document built so far
  apc,               \* where the run stands
  arun,              \* the run under way: 1, 2
  asynth,            \* per run started: whether it synthesized the metadata
  firstDoc,          \* the document the first run wrote
  \* ---- the text fold of lines 213-220, on its own ----
  foldIn, foldOut, fpc,
  \* ---- the response cleaning of lines 70-74, on its own ----
  rawText,           \* the text of a response, character by character
  cleaned,           \* the cleaned text
  clpc,              \* "in" before the cleaning, "out" after it
  \* ---- the page files' names, written by the capture, parsed by main ----
  bookId,            \* the identifier of the book, character by character
  padUntil,          \* captureUntil, which gives the pad width
  nameIndex,         \* the capture loop's i
  written,           \* the files written: [index, page, path]
  parsed,            \* what the transcription stage parses, per file
  npc                \* "capture", "ocr", "done"

avars == << contentFile, metadataFile, bookMd, metadata, contentSorted,
            lastTocItemIndex, ai, aindex, output, apc, arun, asynth, firstDoc,
            foldIn, foldOut, fpc, rawText, cleaned, clpc,
            bookId, padUntil, nameIndex, written, parsed, npc >>

namevars == << bookId, padUntil, nameIndex, written, parsed, npc >>

NIdle ==
  /\ bookId = <<>> /\ padUntil = 0 /\ nameIndex = 0
  /\ written = <<>> /\ parsed = <<>> /\ npc = "idle"

vars == << tvars, cvars, avars >>

(***************************************************************************)
(* Transcription: the sort of lines 108-111.                               *)
(***************************************************************************)
CompareIndexOnly(a, b) == a.index - b.index
\* the comparator: capture index, then page number (a missing one last)
Compare(a, b) ==
  IF a.index # b.index
    THEN a.index - b.index
    ELSE Coalesce(a.page, MAX_SAFE_INTEGER) - Coalesce(b.page, MAX_SAFE_INTEGER)

\* Array.prototype.sort is stable: an element goes after every element that
\* does not compare greater than it
RECURSIVE InsertSorted(_, _)
InsertSorted(s, c) ==
  IF s = <<>> THEN << c >>
  ELSE IF Compare(Head(s), c) > 0 THEN << c >> \o s
  ELSE << Head(s) >> \o InsertSorted(Tail(s), c)

RECURSIVE SortChunks(_)
SortChunks(s) ==
  IF s = <<>> THEN <<>>
  ELSE InsertSorted(SortChunks(SubSeq(s, 1, Len(s) - 1)), s[Len(s)])

\* .filter(Boolean) over the Promise.all array, which is in input order
RECURSIVE FilterBoolean(_, _)
FilterBoolean(slots, k) ==
  IF k > Len(slots) THEN <<>> ELSE slots[k] \o FilterBoolean(slots, k + 1)

(***************************************************************************)
(* Transcription: the per-image task.                                      *)
(***************************************************************************)
MaxOf(S) == CHOOSE x \in S : \A y \in S : y <= x

NextRetriesShared(k) == MaxOf({ retries[j] : j \in Images }) + 1
\* ++retries on the task's own counter
NextRetries(k) == retries[k] + 1

ExhaustedLate(r, maxRetries) == r > maxRetries
ExhaustedEarly(r, maxRetries) == r >= maxRetries - 1
\* retries >= maxRetries
Exhausted(r, maxRetries) == r >= maxRetries

BackoffUncapped(r) == 500 * r
\* Math.min(500 * retries, 5000)
Backoff(r) == Min(500 * r, 5000)

TemperatureLate(r) == IF r <= 2 THEN 0 ELSE 5
\* line 50: temperature: retries < 2 ? 0 : 0.5, in tenths
Temperature(r) == IF r < 2 THEN 0 ELSE 5

\* line 54: the system prompt ends with the extra clause when retries > 2
ExtraClause(r) == r > 2

\* lines 48-68: the parameters of the request that depend on retries
Request(r) == [temperature |-> Temperature(r), justify |-> ExtraClause(r)]

\* the ContentChunk of lines 91-96; the image's position stands for its path
Chunk(k, text) ==
  [ index |-> pageScreenshots[k].index, page |-> pageScreenshots[k].page,
    text |-> text, screenshot |-> k ]

InFlight == { k \in Images : tpc[k] = "await" }

\* lines 13-27: n distinct page images are found, the environment is read;
\* pc is "start" before the assertion of line 19, "running" after it
TBegin(n, retryValues, pc) ==
  /\ pageScreenshots \in
       { s \in [1..n -> FileNames] : \A a, b \in 1..n : a # b => s[a] # s[b] }
  /\ concurrency \in ConcurrencyValues
  /\ maxRetriesDefault \in retryValues
  /\ tpc = [k \in 1..n |-> "read"]
  /\ retries = [k \in 1..n |-> 0]
  /\ hist = [k \in 1..n |-> <<>>]
  /\ calls = [k \in 1..n |-> 0]
  /\ requests = [k \in 1..n |-> <<>>]
  /\ waitMs = [k \in 1..n |-> 0]
  /\ waits = [k \in 1..n |-> <<>>]
  /\ results = [k \in 1..n |-> <<>>]
  /\ completed = <<>>
  /\ contentJson = <<>>
  /\ mainpc = pc

\* the stage past the assertion of line 19
TStart(n, retryValues) == TBegin(n, retryValues, "running")

\* main is entered; the glob finds no page image, or NumImages of them
PInit == \E n \in {0, NumImages} : TBegin(n, MaxRetriesValues, "start")

HasScreenshotsAlways(screenshots) == TRUE
\* line 19: assert(pageScreenshots.length, ...)
HasScreenshots(screenshots) == Len(screenshots) # 0

\* lines 18-19: the run goes on only when a page image was found
CheckScreenshots ==
  /\ mainpc = "start"
  /\ mainpc' = IF HasScreenshots(pageScreenshots) THEN "running" ELSE "aborted"
  /\ UNCHANGED << cvars, avars, pageScreenshots, concurrency, maxRetriesDefault, tpc, retries,
                  hist, calls, requests, waitMs, waits, results, completed, contentJson >>

TInit == TStart(NumImages, MaxRetriesValues)

\* a run over a single page image
RInit == TStart(1, DeepRetriesValues)

\* lines 29-45: the image is read, its name parsed, retries = 0
ReadFile(k) ==
  /\ mainpc = "running" /\ tpc[k] = "read"
  /\ tpc' = [tpc EXCEPT ![k] = "call"]
  /\ retries' = [retries EXCEPT ![k] = 0]
  /\ UNCHANGED << cvars, avars, pageScreenshots, concurrency, maxRetriesDefault, hist, calls, requests,
                  waitMs, waits, results, completed, contentJson, mainpc >>

\* line 48: the request is sent
SendRequest(k) ==
  /\ mainpc = "running" /\ tpc[k] = "call"
  /\ calls[k] < MaxCalls
  /\ tpc' = [tpc EXCEPT ![k] = "await"]
  /\ calls' = [calls EXCEPT ![k] = @ + 1]
  /\ requests' = [requests EXCEPT ![k] = Append(@, Request(retries[k]))]
  /\ UNCHANGED << cvars, avars, pageScreenshots, concurrency, maxRetriesDefault, retries, hist,
                  waitMs, waits, results, completed, contentJson, mainpc >>

AfterThrowRetry == "call"
\* lines 100-102: the catch is outside the do-while; the task ends
AfterThrow == "caught"

\* lines 48-102: the response arrives and is classified
Receive(k) ==
  /\ mainpc = "running" /\ tpc[k] = "await"
  /\ \E res \in Responses :
       LET text == CleanText(res)
           r == NextRetries(k)
       IN /\ hist' = [hist EXCEPT ![k] = Append(@, res)]
          /\ IF res.throws
               THEN \* caught at line 100: the task resolves to undefined
                    /\ tpc' = [tpc EXCEPT ![k] = AfterThrow]
                    /\ completed' = Append(completed, k)
                    /\ UNCHANGED << retries, waitMs, waits, results >>
             ELSE IF IsEmptyText(text)
               THEN \* line 78: continue
                    /\ tpc' = [tpc EXCEPT ![k] = "call"]
                    /\ retries' = [retries EXCEPT ![k] = r]
                    /\ UNCHANGED << waitMs, waits, results, completed >>
             ELSE IF IsRefusal(text)
               THEN IF Exhausted(r, maxRetriesDefault)
                      THEN \* line 81: thrown, caught at line 100
                           /\ tpc' = [tpc EXCEPT ![k] = "caught"]
                           /\ retries' = [retries EXCEPT ![k] = r]
                           /\ completed' = Append(completed, k)
                           /\ UNCHANGED << waitMs, waits, results >>
                      ELSE \* line 87: back off, then continue
                           /\ tpc' = [tpc EXCEPT ![k] = "delay"]
                           /\ retries' = [retries EXCEPT ![k] = r]
                           /\ waitMs' = [waitMs EXCEPT ![k] = Backoff(r)]
                           /\ waits' = [waits EXCEPT ![k] =
                                          Append(@, [attempt |-> r, ms |-> Backoff(r)])]
                           /\ UNCHANGED << results, completed >>
             ELSE \* lines 91-98: accepted
                  /\ tpc' = [tpc EXCEPT ![k] = "done"]
                  /\ retries' = [retries EXCEPT ![k] = r]
                  /\ results' = [results EXCEPT ![k] = << Chunk(k, text) >>]
                  /\ completed' = Append(completed, k)
                  /\ UNCHANGED << waitMs, waits >>
  /\ UNCHANGED << cvars, avars, pageScreenshots, concurrency, maxRetriesDefault, calls, requests,
                  contentJson, mainpc >>

\* line 87: the delay elapses
DelayDone(k) ==
  /\ mainpc = "running" /\ tpc[k] = "delay"
  /\ tpc' = [tpc EXCEPT ![k] = "call"]
  /\ waitMs' = [waitMs EXCEPT ![k] = 0]
  /\ UNCHANGED << cvars, avars, pageScreenshots, concurrency, maxRetriesDefault, retries, hist,
                  calls, requests, waits, results, completed, contentJson, mainpc >>

\* lines 105-116: every task has settled; filter, sort, write content.json
WriteContent ==
  /\ mainpc = "running"
  /\ \A k \in Images : tpc[k] \in {"done", "caught"}
  /\ contentJson' = << SortChunks(FilterBoolean(results, 1)) >>
  /\ mainpc' = "written"
  /\ UNCHANGED << cvars, avars, pageScreenshots, concurrency, maxRetriesDefault, tpc, retries,
                  hist, calls, requests, waitMs, waits, results, completed >>

(***************************************************************************)
(* Capture: the viewer.  The remote viewer is opaque: a navigation action  *)
(* may leave it where it is or move it to any other state; a viewer either *)
(* reports a page number throughout a run or never does.  Its content      *)
(* signature always ends in the image count, so it is never empty.         *)
(***************************************************************************)
\* cap on the captures of one run (the provisional cap of the code is 9999)
MaxCaptures == 3

ViewerPages == {1, 2}
ViewerSigs == {"a|2", "b|2"}
ViewerImgs == {"h1", "h2"}
TotalValues == {undefined, 2}
MaxPagesValues == {0, 1, 3}
VerifyRetriesValues == {1, 2}

ViewerStates ==
  [page : ViewerPages \cup {undefined}, sig : ViewerSigs, img : ViewerImgs]

\* what a navigation action (br.next(), a click on the next control, a key
\* press, the borrow click) can leave the viewer in
NavOutcomes ==
  IF frozen THEN {viewer}
  ELSE { v \in ViewerStates : (v.page = undefined) <=> (viewer.page = undefined) }

\* getBrState, lines 277-296
Observe(v) == [page |-> v.page, sig |-> v.sig]

\* the provisional total of line 387
ProvisionalCap == 9999

\* lines 386-388
TotalOf(vt, env) ==
  IF vt = undefined \/ vt <= 0
    THEN (IF env # 0 THEN env ELSE ProvisionalCap)
    ELSE vt

CaptureUntilUnlimited(tot, env) == tot
\* line 394
CaptureUntilOf(tot, env) == IF env > 0 THEN Min(tot, env) ELSE tot

\* the check of lines 432, 442, 447
AdvChanged(s, prevSig, prevPage) ==
  Coalesce(s.page, -1) # prevPage \/ (s.sig # "" /\ s.sig # prevSig)

\* the check of lines 452 and 460: no advance seen
GuardUnchanged(s, lSig, lPage) ==
  s.sig = lSig \/ Coalesce(s.page, -1) = lPage

\* the hash test of line 473
NeedsRecapture(h, lHash, n) == h = lHash /\ n > 0

AfterRecaptureLoop == "hashcheck"
\* lines 473-479 are an if, not a loop: the recaptured image is written
AfterRecapture == "write"

CapturedPageOneBased(n, pageNum, tot) ==
  [index |-> n + 1, page |-> pageNum, total |-> tot, screenshot |-> << n, pageNum >>]
\* the PageChunk of line 487; index and page number stand for the file name
CapturedPage(n, pageNum, tot) ==
  [index |-> n, page |-> pageNum, total |-> tot, screenshot |-> << n, pageNum >>]

FinalTotalProvisional(pgs, tot) == tot
\* line 506
FinalTotal(pgs, tot) == IF Len(pgs) # 0 THEN pgs[Len(pgs)].page ELSE tot

\* lines 507-515
Metadata(pgs, tot) ==
  LET finalTotal == FinalTotal(pgs, tot)
  IN [ toc |-> << [title |-> "Book", page |-> 1, total |-> finalTotal],
                  [title |-> "End", page |-> finalTotal, total |-> finalTotal] >>,
       pages |-> pgs ]

NoDecision ==
  [ site |-> "none", prevPage |-> 0, prevSig |-> "", page |-> 0, sig |-> "",
    advanced |-> FALSE ]

\* an advancement decision: the observation s, the observation the previous
\* capture was recorded under, and the verdict
Decide(site, s, adv) ==
  [ site |-> site, prevPage |-> brBefore.page, prevSig |-> brBefore.sig,
    page |-> s.page, sig |-> s.sig, advanced |-> adv ]

cfgvars == << viewerTotal, maxPagesEnv, maxVerifyRetries, total, captureUntil >>
lastvars == << lastSig, lastPageNum, lastHash >>
candvars == << hash, firstHash, recaptures >>
outvars == << pages, files, metadataJson >>
envvars == << frozen, frozenAt >>
navvars == << changeSeen, extraNav, navBeforeFirst >>
tracevars == << attempt, episode, borrows, waitTrace >>

\* the state captureIaBook starts in, with the values that lines 373-426 give
\* the loop's variables
CInit ==
  /\ viewer \in ViewerStates
  /\ frozen = FALSE /\ frozenAt = -1
  /\ viewerTotal \in TotalValues
  /\ maxPagesEnv \in MaxPagesValues
  /\ maxVerifyRetries \in VerifyRetriesValues
  /\ total = TotalOf(viewerTotal, maxPagesEnv)
  /\ captureUntil = CaptureUntilOf(total, maxPagesEnv)
  /\ cpc = "discover" /\ i = 0
  /\ attempt = <<>> /\ episode = <<>> /\ borrows = 0 /\ waitTrace = <<>>
  /\ discovery = "pending"
  /\ changeSeen = FALSE /\ extraNav = FALSE /\ navBeforeFirst = FALSE
  /\ st = [page |-> undefined, sig |-> ""]
  /\ brBefore = [page |-> undefined, sig |-> ""]
  /\ tried = 0 /\ advFrom = "tail" /\ advStep = 1
  /\ lastSig = "" /\ lastPageNum = -1 /\ lastHash = ""
  /\ hash = "" /\ firstHash = "" /\ recaptures = 0
  /\ pages = <<>> /\ files = <<>>
  /\ decision = NoDecision
  /\ metadataJson = <<>>

DiscoveryFailureProceeds == "top"
\* line 269: the first error is rethrown, captureIaBook rejects
DiscoveryFailure == "aborted"

\* lines 145-160 and 259: findReaderContext polls the page and its frames
\* until the reader shows or the deadline passes
FindReader ==
  /\ cpc = "discover"
  /\ \E found \in BOOLEAN :
       IF found
         THEN discovery' = "found" /\ cpc' = "top"
         ELSE discovery' = "fallback" /\ cpc' = "fallback"
  /\ UNCHANGED << tvars, avars, tracevars, viewer, envvars, cfgvars, i, st, brBefore, tried, advFrom,
                  advStep, lastvars, candvars, outvars, decision, navvars >>

\* lines 261-270: the legacy stream URL is loaded and the reader looked for
\* once more
FallbackStream ==
  /\ cpc = "fallback"
  /\ \E found \in BOOLEAN :
       IF found
         THEN discovery' = "found" /\ cpc' = "top"
         ELSE discovery' = "missing" /\ cpc' = DiscoveryFailure
  /\ UNCHANGED << tvars, avars, tracevars, viewer, envvars, cfgvars, i, st, brBefore, tried, advFrom,
                  advStep, lastvars, candvars, outvars, decision, navvars >>

\* the viewer stops reacting (end of book, a re-locked loan); it is taken
\* between two iterations, so that the next capture records the final state
Freeze ==
  /\ cpc = "top" /\ ~frozen
  /\ frozen' = TRUE /\ frozenAt' = Len(pages)
  /\ UNCHANGED << tvars, avars, tracevars, discovery, navvars, viewer, cfgvars, cpc, i, st, brBefore, tried, advFrom,
                  advStep, lastvars, candvars, outvars, decision >>

\* lines 449-453: the loop test, the observation, the guard; tried is local
\* to the guard's block and starts at 0 in every iteration
LoopTop ==
  /\ cpc = "top"
  /\ IF i < captureUntil
       THEN /\ i < MaxCaptures
            /\ st' = Observe(viewer)
            /\ IF i > 0
                 THEN LET same == GuardUnchanged(st', lastSig, lastPageNum)
                      IN /\ decision' = Decide("guard", st', ~same)
                         /\ cpc' = IF same THEN "retry" ELSE "stable"
                 ELSE /\ decision' = NoDecision
                      /\ cpc' = "stable"
            /\ tried' = 0
            /\ attempt' = <<>> /\ episode' = <<>> /\ borrows' = 0
       ELSE /\ cpc' = "finalize"
            /\ UNCHANGED << st, tried, decision, attempt, episode, borrows >>
  /\ UNCHANGED << tvars, avars, waitTrace, discovery, navvars, viewer, envvars, cfgvars, i, brBefore, advFrom, advStep,
                  lastvars, candvars, outvars >>

RetryAllowedOnceMore(t, maxRetries) == t <= maxRetries
\* line 454: while (tried < maxVerifyRetries)
RetryAllowed(t, maxRetries) == t < maxRetries

\* line 454: the retry loop's test, and the call of line 455
RetryLoop ==
  /\ cpc = "retry"
  /\ IF RetryAllowed(tried, maxVerifyRetries)
       THEN cpc' = "adv" /\ advFrom' = "retry" /\ advStep' = 1 /\ attempt' = <<>>
       ELSE cpc' = "retry_exit" /\ UNCHANGED << advFrom, advStep, attempt >>
  /\ UNCHANGED << tvars, avars, episode, borrows, waitTrace, discovery, navvars, viewer, envvars, cfgvars, i, st, brBefore, tried,
                  lastvars, candvars, outvars, decision >>

\* advanceOnce's strategies in program order: br.next() (line 429), the click
\* on the next control (lines 434-439), the ArrowRight key (line 444)
Strategy(step) == << "next", "click", "key" >>[step]

\* lines 432 and 442: advanceOnce returns true at the first change seen, and
\* after the third strategy whatever it saw
Escalates(changed, step) == ~changed /\ step < 3

\* lines 427-448: one strategy of advanceOnce, the wait, the observation and
\* the check; on return, the caller's next step (lines 456 and 494-495)
AdvanceStep ==
  /\ cpc = "adv"
  /\ \E v \in NavOutcomes :
       LET obs == Observe(v)
           changed == AdvChanged(obs, lastSig, lastPageNum)
       IN /\ viewer' = v
          /\ decision' = Decide("advanceOnce", obs, changed)
          /\ extraNav' = (extraNav \/ changeSeen)
          /\ changeSeen' = (changeSeen \/ changed)
          /\ navBeforeFirst' = (navBeforeFirst \/ files = <<>>)
          /\ attempt' = Append(attempt, [ strategy |-> Strategy(advStep),
                                          page |-> obs.page, sig |-> obs.sig,
                                          prevPage |-> brBefore.page,
                                          prevSig |-> brBefore.sig,
                                          changed |-> changed ])
          /\ IF Escalates(changed, advStep)
               THEN /\ advStep' = advStep + 1
                    /\ UNCHANGED << cpc, i, st, episode >>
             ELSE /\ advStep' = 1
                  /\ IF advFrom = "retry"
                       THEN /\ episode' = Append(episode, changed)
                            /\ IF changed
                                 THEN st' = obs /\ cpc' = "retry_exit" /\ UNCHANGED i
                                 ELSE cpc' = "borrow" /\ UNCHANGED << i, st >>
                       ELSE i' = i + 1 /\ cpc' = "top" /\ UNCHANGED << st, episode >>
  /\ UNCHANGED << tvars, avars, borrows, waitTrace, discovery, envvars, cfgvars, brBefore, tried, advFrom, lastvars,
                  candvars, outvars >>

\* lines 457-458: the borrow affordance is tried again, tried++
AttemptBorrow ==
  /\ cpc = "borrow"
  /\ viewer' \in NavOutcomes
  /\ tried' = tried + 1
  /\ borrows' = borrows + 1
  /\ cpc' = "retry"
  /\ UNCHANGED << tvars, avars, attempt, episode, waitTrace, discovery, navvars, envvars, cfgvars, i, st, brBefore, advFrom, advStep,
                  lastvars, candvars, outvars, decision >>

\* lines 460-463: stop early when the retries are used up with no change
GuardExit ==
  /\ cpc = "retry_exit"
  /\ IF tried >= maxVerifyRetries
       THEN LET same == GuardUnchanged(st, lastSig, lastPageNum)
            IN /\ decision' = Decide("guard_exit", st, ~same)
               /\ cpc' = IF same THEN "finalize" ELSE "stable"
       ELSE cpc' = "stable" /\ UNCHANGED decision
  /\ UNCHANGED << tvars, avars, tracevars, discovery, navvars, viewer, envvars, cfgvars, i, st, brBefore, tried, advFrom,
                  advStep, lastvars, candvars, outvars >>

\* how the spinner loop of lines 320-325 ends: the spinner is gone, or the
\* deadline of IA_SPINNER_TIMEOUT_MS passes with the spinner still visible
SpinnerOutcomes == {"gone", "timeout"}

WaitForPageStableStrict(spinner) ==
  IF spinner = "timeout" THEN << "container", "spinner_timeout", "error" >>
  ELSE << "container", "spinner_gone", "images", "tile_stable", "page_delay" >>
\* waitForPageStable, lines 299-349: the gates passed, in order; the spinner
\* loop just ends at its deadline, inside a try whose catch is empty.  The
\* reader's container, found by the discovery, is visible throughout.
WaitForPageStable(spinner) ==
  << "container", IF spinner = "timeout" THEN "spinner_timeout" ELSE "spinner_gone",
     "images", "tile_stable", "page_delay" >>

\* lines 466-472: the stability wait, the screenshot and its hash
Capture ==
  /\ cpc = "stable"
  /\ \E spinner \in SpinnerOutcomes :
       LET gates == WaitForPageStable(spinner)
       IN /\ waitTrace' = gates
          /\ IF gates[Len(gates)] = "error"
               THEN \* line 466 is in no try block: the run ends with the error
                    /\ cpc' = "aborted"
                    /\ UNCHANGED << brBefore, candvars >>
               ELSE /\ brBefore' = st
                    /\ hash' = viewer.img /\ firstHash' = viewer.img /\ recaptures' = 0
                    /\ cpc' = "hashcheck"
  /\ UNCHANGED << tvars, avars, attempt, episode, borrows, discovery, navvars, viewer, envvars, cfgvars, i, st, tried, advFrom, advStep,
                  lastvars, outvars, decision >>

\* lines 473-479: a candidate equal to the previous capture is taken again
\* after one more advance
HashCheck ==
  /\ cpc = "hashcheck"
  /\ IF NeedsRecapture(hash, lastHash, i)
       THEN \E v \in NavOutcomes :
              /\ viewer' = v
              /\ hash' = v.img
              /\ recaptures' = recaptures + 1
              /\ cpc' = AfterRecapture
              /\ extraNav' = (extraNav \/ changeSeen)
              /\ UNCHANGED << changeSeen, navBeforeFirst >>
       ELSE cpc' = "write" /\ UNCHANGED << viewer, hash, recaptures, navvars >>
  /\ UNCHANGED << tvars, avars, tracevars, discovery, envvars, cfgvars, i, st, brBefore, tried, advFrom, advStep,
                  lastvars, firstHash, outvars, decision >>

\* lines 481-494: the image is written, the page recorded, advanceOnce called
WritePage ==
  /\ cpc = "write"
  /\ LET pageNum == Coalesce(brBefore.page, i + 1)
     IN /\ files' = Append(files, hash)
        /\ pages' = Append(pages, CapturedPage(i, pageNum, total))
        /\ lastSig' = IF brBefore.sig # "" THEN brBefore.sig ELSE lastSig
        /\ lastPageNum' = pageNum
        /\ lastHash' = hash
  /\ cpc' = "adv" /\ advFrom' = "tail" /\ advStep' = 1
  /\ attempt' = <<>> /\ waitTrace' = <<>>
  /\ changeSeen' = FALSE /\ extraNav' = FALSE /\ UNCHANGED navBeforeFirst
  /\ UNCHANGED << tvars, avars, episode, borrows, discovery, viewer, envvars, cfgvars, i, st, brBefore, tried,
                  candvars, metadataJson, decision >>

\* lines 497-518: metadata.json is written
Finalize ==
  /\ cpc = "finalize"
  /\ metadataJson' = << Metadata(pages, total) >>
  /\ cpc' = "done"
  /\ UNCHANGED << tvars, avars, tracevars, discovery, navvars, viewer, envvars, cfgvars, i, st, brBefore, tried, advFrom,
                  advStep, lastvars, candvars, pages, files, decision >>

CNext ==
  \/ FindReader
  \/ FallbackStream
  \/ Freeze
  \/ LoopTop
  \/ RetryLoop
  \/ AdvanceStep
  \/ AttemptBorrow
  \/ GuardExit
  \/ Capture
  \/ HashCheck
  \/ WritePage
  \/ Finalize

(***************************************************************************)
(* Export: the assembler of the second program of                          *)
(* src/src/transcribe-book-content.ts (lines 121-233).  A text is a        *)
(* sequence of characters: letters, "SP" (space), "LF" (\n), "CR" (\r).    *)
(* Indices into arrays keep the code's 0-based values.                     *)
(***************************************************************************)
\* the longest content.json of the model
MaxChunks == 3
\* the longest text the fold is applied to on its own
MaxTextLen == 4

ChunkIndexes == 0..2
ChunkPages == {1, 2, 3}
TocPages == {undefined, 1, 2, 3}
TocLengths == 0..3
TocTitles == << "One", "Two", "Three", "Four" >>
TextChars == {"a", "SP", "LF", "CR"}

\* the recognized text of the page image with capture index idx
PageText(idx) ==
  CASE idx = 0 -> << "a", "LF", "a" >>
    [] idx = 1 -> << "b", "LF", "LF", "b" >>
    [] OTHER -> << "c", "CR", "LF", "c", "SP" >>

\* a chunk of content.json as the transcription stage writes it
FileChunk(idx, pg) ==
  [ index |-> idx, page |-> pg, text |-> PageText(idx), screenshot |-> << idx, pg >> ]

\* the contents of content.json: the sorted lists of chunks of distinct page
\* images that the transcription stage writes, and the empty list
ContentFiles ==
  LET keys == ChunkIndexes \X ChunkPages
      raws == UNION { { r \in [1..n -> keys] : \A x, y \in 1..n : x # y => r[x] # r[y] }
                      : n \in 1..MaxChunks }
  IN { SortChunks([n \in 1..Len(r) |-> FileChunk(r[n][1], r[n][2])]) : r \in raws }
       \cup { <<>> }

TocLists ==
  UNION { { [n \in 1..len |-> [title |-> TocTitles[n], page |-> pgs[n], total |-> 3]]
            : pgs \in [1..len -> TocPages] } : len \in TocLengths }

\* the contents of metadata.json when it can be read: without a meta, or
\* with a meta and any TOC (a missing toc and an empty one both have a falsy
\* length and are one case here)
MetadataFiles ==
  { [ meta |-> <<>>,
      toc |-> << [title |-> "One", page |-> 1, total |-> 3],
                 [title |-> "Two", page |-> 2, total |-> 3] >> ] }
    \cup { [ meta |-> << [asin |-> "id", title |-> "Title", authorList |-> << "Author" >>] >>,
             toc |-> t ] : t \in TocLists }

\* a || b on numbers
OrElse(a, b) == IF a = 0 \/ a = undefined THEN b ELSE a

\* line 149: content.reduce((m, c) => Math.max(m, c.page || 0), 0) || 0
RECURSIVE MaxPageOf(_)
MaxPageOf(content) ==
  IF content = <<>> THEN 0
  ELSE LET m == MaxPageOf(SubSeq(content, 1, Len(content) - 1))
           pg == OrElse(content[Len(content)].page, 0)
       IN IF pg > m THEN pg ELSE m

\* line 148: !metadata?.meta || !metadata?.toc?.length
NeedsSynthesis(file) ==
  file = <<>> \/ file[1].meta = <<>> \/ Len(file[1].toc) = 0

\* lines 150-162
Synthesized(content) ==
  LET maxPage == OrElse(MaxPageOf(content), 0)
      span == OrElse(maxPage, Len(content))
  IN [ meta |-> << [asin |-> "bookId", title |-> "bookId", authorList |-> << "Unknown" >>] >>,
       toc |-> << [title |-> "Content", page |-> 1, total |-> span],
                  [title |-> "End", page |-> span, total |-> span] >> ]

StoredMetadataFirstEntry(m) == [ meta |-> m.meta, toc |-> SubSeq(m.toc, 1, 1) ]
\* line 165 and, in a later run, lines 143-145: JSON.stringify, then
\* JSON.parse; every entry comes back with its title, page and total, a page
\* that was undefined is left out and is undefined again when read
StoredMetadata(m) ==
  [ meta |-> m.meta,
    toc |-> [ n \in 1..Len(m.toc) |->
                [ title |-> m.toc[n].title, page |-> m.toc[n].page,
                  total |-> m.toc[n].total ] ] ]

CompareExportByPage(a, b) ==
  Coalesce(a.page, MAX_SAFE_INTEGER) - Coalesce(b.page, MAX_SAFE_INTEGER)
\* the comparator of lines 171-174
CompareExport(a, b) ==
  IF a.index # b.index
    THEN a.index - b.index
    ELSE Coalesce(a.page, MAX_SAFE_INTEGER) - Coalesce(b.page, MAX_SAFE_INTEGER)

RECURSIVE InsertSortedExport(_, _)
InsertSortedExport(s, c) ==
  IF s = <<>> THEN << c >>
  ELSE IF CompareExport(Head(s), c) > 0 THEN << c >> \o s
  ELSE << Head(s) >> \o InsertSortedExport(Tail(s), c)

\* [...content].sort(...), lines 170-175
RECURSIVE SortExport(_)
SortExport(s) ==
  IF s = <<>> THEN <<>>
  ELSE InsertSortedExport(SortExport(SubSeq(s, 1, Len(s) - 1)), s[Len(s)])

FindIndexStrict(cs, p) ==
  LET hits == { n \in 1..Len(cs) : cs[n].page > p }
  IN IF hits = {} THEN -1
     ELSE (CHOOSE n \in hits : \A m \in hits : n <= m) - 1
\* contentSorted.findIndex((c) => c.page >= p): 0-based, -1 when none
FindIndex(cs, p) ==
  LET hits == { n \in 1..Len(cs) : cs[n].page >= p }
  IN IF hits = {} THEN -1
     ELSE (CHOOSE n \in hits : \A m \in hits : n <= m) - 1

ComputeNextIndexRewinding(currentIndex, tocIndex) ==
  IF tocIndex + 2 > Len(metadata.toc) THEN Len(contentSorted)
  ELSE IF metadata.toc[tocIndex + 2].page = undefined THEN Len(contentSorted)
  ELSE LET found == FindIndex(contentSorted, metadata.toc[tocIndex + 2].page)
       IN IF found = -1 THEN Len(contentSorted) ELSE found
\* computeNextIndex, lines 180-190
ComputeNextIndex(currentIndex, tocIndex) ==
  IF tocIndex + 2 > Len(metadata.toc) THEN Len(contentSorted)
  ELSE IF metadata.toc[tocIndex + 2].page = undefined THEN Len(contentSorted)
  ELSE LET found == FindIndex(contentSorted, metadata.toc[tocIndex + 2].page)
           nextIndex == IF found = -1 THEN Len(contentSorted) ELSE found
       IN IF nextIndex < currentIndex THEN currentIndex ELSE nextIndex

\* lines 192-198: the last entry before the final one that has a page
LastTocItem(toc) ==
  LET used == { n \in 0..(Len(toc) - 2) : toc[n + 1].page # undefined }
  IN IF used = {} THEN 0 ELSE CHOOSE n \in used : \A m \in used : m <= n

\* lines 200-203: the titles listed in the table of contents
RECURSIVE RenderedToc(_, _, _)
RenderedToc(toc, last, n) ==
  IF n >= Len(toc) THEN <<>>
  ELSE (IF toc[n + 1].page # undefined /\ n <= last
          THEN << toc[n + 1].title >> ELSE <<>>)
       \o RenderedToc(toc, last, n + 1)

\* array.slice(from, to)
Slice(s, from, to) == SubSeq(s, from + 1, to)

IsSpace(c) == c \in {"SP", "LF", "CR"}

\* .replace(/\r/g, '')
RemoveCR(t) == SelectSeq(t, LAMBDA c : c # "CR")

\* .replace(/\n{2,}/g, '\n\n')
RECURSIVE CollapseBreaks(_)
CollapseBreaks(t) ==
  IF Len(t) < 2 THEN t
  ELSE IF t[1] = "LF" /\ t[2] = "LF"
         THEN IF Len(t) >= 3 /\ t[3] = "LF"
                THEN CollapseBreaks(Tail(t))
                ELSE << "LF", "LF" >> \o CollapseBreaks(Tail(Tail(t)))
       ELSE << t[1] >> \o CollapseBreaks(Tail(t))

\* .replace(/\n/g, ' ')
FoldNewlines(t) == [ n \in 1..Len(t) |-> IF t[n] = "LF" THEN "SP" ELSE t[n] ]

\* .trim()
RECURSIVE TrimStart(_)
TrimStart(t) == IF t # <<>> /\ IsSpace(Head(t)) THEN TrimStart(Tail(t)) ELSE t
RECURSIVE TrimEnd(_)
TrimEnd(t) ==
  IF t # <<>> /\ IsSpace(t[Len(t)]) THEN TrimEnd(SubSeq(t, 1, Len(t) - 1)) ELSE t
Trim(t) == TrimEnd(TrimStart(t))

\* lines 215-220: the fold of one chunk's text
FoldText(t) == Trim(FoldNewlines(CollapseBreaks(RemoveCR(t))))

\* lines 213-222: the folded chunk texts, joined by '\n\n'
RECURSIVE JoinFolded(_)
JoinFolded(chunks) ==
  IF chunks = <<>> THEN <<>>
  ELSE IF Len(chunks) = 1 THEN FoldText(chunks[1].text)
  ELSE FoldText(chunks[1].text) \o << "LF", "LF" >> \o JoinFolded(Tail(chunks))

NoMetadata == [ meta |-> <<>>, toc |-> <<>> ]
NoDocument == [ title |-> "", authors |-> <<>>, toc |-> <<>>, sections |-> <<>> ]

\* the files the export stage finds, and main about to start
AInit ==
  /\ contentFile \in ContentFiles
  /\ metadataFile \in { <<>> } \cup { << m >> : m \in MetadataFiles }
  /\ bookMd = <<>>
  /\ metadata = NoMetadata
  /\ contentSorted = <<>>
  /\ lastTocItemIndex = 0 /\ ai = 0 /\ aindex = 0
  /\ output = NoDocument
  /\ apc = "load" /\ arun = 1 /\ asynth = <<>> /\ firstDoc = <<>>
  /\ foldIn = <<>> /\ foldOut = <<>> /\ fpc = "idle"
  /\ rawText = <<>> /\ cleaned = <<>> /\ clpc = "idle"
  /\ NIdle

foldvars == << foldIn, foldOut, fpc >>
cleanvars == << rawText, cleaned, clpc >>

\* lines 135-175: content.json is read and must not be empty; metadata.json
\* is read or synthesized and, best effort, written; the content is sorted
LoadInputs ==
  /\ apc = "load"
  /\ IF Len(contentFile) = 0
       THEN /\ apc' = "aborted"
            /\ UNCHANGED << metadataFile, metadata, contentSorted, asynth >>
       ELSE \E writeOk \in BOOLEAN :
              LET synth == NeedsSynthesis(metadataFile)
                  md == IF synth THEN Synthesized(contentFile) ELSE metadataFile[1]
              IN /\ metadata' = md
                 /\ metadataFile' = IF synth /\ writeOk
                                      THEN << StoredMetadata(md) >>
                                      ELSE metadataFile
                 /\ asynth' = Append(asynth, synth)
                 /\ contentSorted' = SortExport(contentFile)
                 /\ apc' = "tocpass"
  /\ UNCHANGED << tvars, cvars, contentFile, bookMd, lastTocItemIndex, ai, aindex,
                  output, arun, firstDoc, foldvars, cleanvars, namevars >>

\* lines 177-203: the heading and the table of contents
TocPass ==
  /\ apc = "tocpass"
  /\ lastTocItemIndex' = LastTocItem(metadata.toc)
  /\ output' = [ title |-> metadata.meta[1].title,
                 authors |-> metadata.meta[1].authorList,
                 toc |-> RenderedToc(metadata.toc, lastTocItemIndex', 0),
                 sections |-> <<>> ]
  /\ ai' = 0 /\ aindex' = 0
  /\ apc' = "sections"
  /\ UNCHANGED << tvars, cvars, contentFile, metadataFile, bookMd, metadata,
                  contentSorted, arun, asynth, firstDoc, foldvars, cleanvars, namevars >>

HasNoPageNever(tocItem) == FALSE
\* line 207: if (tocItem.page === undefined) continue
HasNoPage(tocItem) == tocItem.page = undefined

\* lines 205-227: one iteration of the section loop; a section is recorded
\* with the TOC entry it was made for and the slice bounds it was cut with
SectionStep ==
  /\ apc = "sections"
  /\ ai < Len(metadata.toc) - 1
  /\ LET tocItem == metadata.toc[ai + 1]
     IN IF HasNoPage(tocItem)
          THEN UNCHANGED << aindex, output >>
          ELSE LET nextIndex == ComputeNextIndex(aindex, ai)
                   chunks == Slice(contentSorted, aindex, nextIndex)
               IN /\ output' =
                       [ output EXCEPT !.sections =
                           Append(@, [ entry |-> ai, title |-> tocItem.title,
                                       from |-> aindex, to |-> nextIndex,
                                       text |-> JoinFolded(chunks) ]) ]
                  /\ aindex' = nextIndex
  /\ ai' = ai + 1
  /\ UNCHANGED << tvars, cvars, contentFile, metadataFile, bookMd, metadata,
                  contentSorted, lastTocItemIndex, apc, arun, asynth, firstDoc,
                  foldvars, cleanvars, namevars >>

\* line 229: book.md is written
WriteBook ==
  /\ apc = "sections"
  /\ ai >= Len(metadata.toc) - 1
  /\ bookMd' = << output >>
  /\ firstDoc' = IF arun = 1 THEN << output >> ELSE firstDoc
  /\ apc' = "done"
  /\ UNCHANGED << tvars, cvars, contentFile, metadataFile, metadata, contentSorted,
                  lastTocItemIndex, ai, aindex, output, arun, asynth, foldvars, cleanvars, namevars >>

\* the export is run once more on the files the first run left
Rerun ==
  /\ apc = "done" /\ arun = 1
  /\ arun' = 2
  /\ metadata' = NoMetadata
  /\ contentSorted' = <<>>
  /\ lastTocItemIndex' = 0 /\ ai' = 0 /\ aindex' = 0
  /\ output' = NoDocument
  /\ apc' = "load"
  /\ UNCHANGED << tvars, cvars, contentFile, metadataFile, bookMd, asynth, firstDoc,
                  foldvars, cleanvars, namevars >>

ANext ==
  \/ LoadInputs
  \/ TocPass
  \/ SectionStep
  \/ WriteBook
  \/ Rerun

\* the texts the fold is applied to on its own
FoldInputs == UNION { [1..n -> TextChars] : n \in 0..MaxTextLen }

\* lines 215-220 applied to one text
ApplyFold ==
  /\ fpc = "in"
  /\ foldOut' = FoldText(foldIn)
  /\ fpc' = "out"
  /\ UNCHANGED << tvars, cvars, contentFile, metadataFile, bookMd, metadata,
                  contentSorted, lastTocItemIndex, ai, aindex, output, apc, arun,
                  asynth, firstDoc, foldIn, cleanvars, namevars >>

\* cap on the length of a response text
MaxRawLen == 5

\* the characters of a response: a letter, a digit, a blank, a line feed
RawChars == {"a", "1", "SP", "LF"}
RawTexts == UNION { [1..n -> RawChars] : n \in 0..MaxRawLen }

IsDigit(c) == c = "1"

\* ^ under the m flag, at the 0-based position p: the start of the text, or
\* just after a line terminator
LineStart(t, p) == p = 0 \/ t[p] = "LF"

\* where a greedy \s* that starts at position p ends
RECURSIVE WsEnd(_, _)
WsEnd(t, p) == IF p < Len(t) /\ IsSpace(t[p + 1]) THEN WsEnd(t, p + 1) ELSE p

\* where a greedy \d* that starts at position p ends
RECURSIVE DigitsEnd(_, _)
DigitsEnd(t, p) == IF p < Len(t) /\ IsDigit(t[p + 1]) THEN DigitsEnd(t, p + 1) ELSE p

\* the line feeds of the text from position p up to position e
LineFeeds(t, p, e) == { q \in p..(e - 1) : t[q + 1] = "LF" }

\* /^\s*\d+\s*$\n+/m tried at position p: the end of the match, -1 when it
\* fails.  The second \s* gives back characters until a line feed follows,
\* which $ accepts and \n+ consumes: the match ends after the last line
\* feed of the white space that follows the digits.
PageLineMatch(t, p) ==
  LET a == WsEnd(t, p)
      b == DigitsEnd(t, a)
      c == WsEnd(t, b)
  IN IF LineStart(t, p) /\ b > a /\ LineFeeds(t, b, c) # {}
       THEN MaxOf(LineFeeds(t, b, c)) + 1
       ELSE -1

\* line 71: .replace(/^\s*\d+\s*$\n+/m, ''): the leftmost match is removed
StripPageLine(t) ==
  LET starts == { p \in 0..Len(t) : PageLineMatch(t, p) # -1 }
  IN IF starts = {} THEN t
     ELSE LET p == CHOOSE x \in starts : \A y \in starts : x <= y
          IN SubSeq(t, 1, p) \o SubSeq(t, PageLineMatch(t, p) + 1, Len(t))

\* line 72: .replaceAll(/^\s*/gm, ''), scanning from position p: at a line
\* start the white space that follows, line feeds included, is removed
RECURSIVE TrimLineStarts(_, _)
TrimLineStarts(t, p) ==
  IF p >= Len(t) THEN <<>>
  ELSE IF LineStart(t, p) /\ IsSpace(t[p + 1])
         THEN TrimLineStarts(t, WsEnd(t, p))
         ELSE << t[p + 1] >> \o TrimLineStarts(t, p + 1)

\* line 73: .replaceAll(/\s*$/gm, ''), scanning from position p: white space
\* is removed up to the end of the text, or up to its last line feed
RECURSIVE TrimLineEnds(_, _)
TrimLineEnds(t, p) ==
  IF p >= Len(t) THEN <<>>
  ELSE LET e == WsEnd(t, p)
           m == IF e = Len(t) THEN e
                ELSE IF LineFeeds(t, p, e) = {} THEN p
                ELSE MaxOf(LineFeeds(t, p, e))
       IN IF m > p THEN TrimLineEnds(t, m)
          ELSE << t[p + 1] >> \o TrimLineEnds(t, p + 1)

\* lines 70-74
CleanResponse(t) == TrimLineEnds(TrimLineStarts(StripPageLine(t), 0), 0)

\* lines 70-74 applied to one response text
ApplyClean ==
  /\ clpc = "in"
  /\ cleaned' = CleanResponse(rawText)
  /\ clpc' = "out"
  /\ UNCHANGED << tvars, cvars, contentFile, metadataFile, bookMd, metadata,
                  contentSorted, lastTocItemIndex, ai, aindex, output, apc, arun,
                  asynth, firstDoc, foldvars, rawText, namevars >>

(***************************************************************************)
(* The names of the page files.  The capture writes                        *)
(* out/<id>/pages/<index>-<page>.png, both numbers padded with zeros; the   *)
(* transcription stage globs the directory and parses each path.  Strings  *)
(* are sequences of one-character strings.                                 *)
(***************************************************************************)
\* pages written in one run of this part of the model
MaxNames == 2

Digits == << "0", "1", "2", "3", "4", "5", "6", "7", "8", "9" >>

IsDecimal(c) == \E d \in 1..10 : Digits[d] = c

\* `${n}` for a non-negative integer
RECURSIVE NumberString(_)
NumberString(n) ==
  IF n < 10 THEN << Digits[n + 1] >>
  ELSE NumberString(n \div 10) \o << Digits[(n % 10) + 1] >>

\* s.padStart(width, '0'): a longer string is left as it is
RECURSIVE PadStart(_, _)
PadStart(str, width) ==
  IF Len(str) >= width THEN str ELSE PadStart(<< "0" >> \o str, width)

\* part_000 line 413: Math.max(2, `${captureUntil}`.length)
IndexPad(until) ==
  IF Len(NumberString(until)) > 2 THEN Len(NumberString(until)) ELSE 2

\* part_000 lines 163-165: path.join('out', iaId, 'pages')
PagesDir(id) ==
  << "o", "u", "t", "/" >> \o id \o << "/", "p", "a", "g", "e", "s" >>

\* part_000 lines 482-485
ScreenshotPath(id, n, pageNum, pad) ==
  PagesDir(id) \o << "/" >> \o PadStart(NumberString(n), pad) \o << "-" >>
    \o PadStart(NumberString(pageNum), pad) \o << ".", "p", "n", "g" >>

\* where the run of decimal digits that starts at the 0-based position q ends
RECURSIVE DecimalsEnd(_, _)
DecimalsEnd(str, q) ==
  IF q < Len(str) /\ IsDecimal(str[q + 1]) THEN DecimalsEnd(str, q + 1) ELSE q

\* the zeros at the start of the run at q that a greedy 0* takes, one digit
\* being left for the group that follows
RECURSIVE ZerosTaken(_, _, _)
ZerosTaken(str, q, e) ==
  IF q + 1 < e /\ str[q + 1] = "0" THEN 1 + ZerosTaken(str, q + 1, e) ELSE 0

\* the ends k of the second group for which ".png" matches at k: any
\* character, then p, n, g
SecondGroupEnds(str, from, to) ==
  { k \in (from + 1)..to :
      /\ k + 4 <= Len(str)
      /\ str[k + 2] = "p" /\ str[k + 3] = "n" /\ str[k + 4] = "g" }

\* line 31: /0*(\d+)-\0*(\d+).png/ tried at position q: the two groups, or
\* <<>> when it fails there.  \0 is the NUL character, which no path holds;
\* the second \d+ gives digits back until ".png" matches.
MatchAt(str, q) ==
  LET e == DecimalsEnd(str, q)
      z == ZerosTaken(str, q, e)
      e2 == DecimalsEnd(str, e + 1)
      ends == SecondGroupEnds(str, e + 1, e2)
  IN IF e > q /\ e < Len(str) /\ str[e + 1] = "-" /\ ends # {}
       THEN << SubSeq(str, q + z + 1, e), SubSeq(str, e + 2, MaxOf(ends)) >>
       ELSE <<>>

\* String.prototype.match without the g flag: the leftmost match
MetadataMatch(str) ==
  LET starts == { q \in 0..Len(str) : MatchAt(str, q) # <<>> }
  IN IF starts = {} THEN <<>>
     ELSE MatchAt(str, CHOOSE q \in starts : \A r \in starts : q <= r)

\* Number.parseInt(s, 10) on a string of digits
RECURSIVE ParseInt(_)
ParseInt(str) ==
  IF str = <<>> THEN 0
  ELSE 10 * ParseInt(SubSeq(str, 1, Len(str) - 1))
         + ((CHOOSE d \in 1..10 : Digits[d] = str[Len(str)]) - 1)

\* lines 31-41: index and page of a path; <<-1, -1>> when an assertion fails
ParseScreenshot(str) ==
  IF MetadataMatch(str) = <<>> THEN << -1, -1 >>
  ELSE << ParseInt(MetadataMatch(str)[1]), ParseInt(MetadataMatch(str)[2]) >>

\* identifiers of books
BookIds ==
  { << "b", "7" >>, << "v", "1", "-", "2", ".", "p", "n", "g" >> }

\* values of captureUntil: pad widths 2, 3 and 4
PadUntilValues == {3, 150, 9999}

\* the iterations the run is followed from, and the page numbers the viewer
\* reports there
FirstIndexes == {0, 9, 99}
NamePageNumbers == {0, 7, 10, 100, 1234}

NInit ==
  /\ contentFile = <<>> /\ metadataFile = <<>> /\ bookMd = <<>>
  /\ metadata = NoMetadata /\ contentSorted = <<>>
  /\ lastTocItemIndex = 0 /\ ai = 0 /\ aindex = 0
  /\ output = NoDocument
  /\ apc = "idle" /\ arun = 1 /\ asynth = <<>> /\ firstDoc = <<>>
  /\ foldIn = <<>> /\ foldOut = <<>> /\ fpc = "idle"
  /\ rawText = <<>> /\ cleaned = <<>> /\ clpc = "idle"
  /\ bookId \in BookIds
  /\ padUntil \in PadUntilValues
  /\ nameIndex \in { n \in FirstIndexes : n < padUntil }
  /\ written = <<>> /\ parsed = <<>> /\ npc = "capture"

nameframe ==
  << tvars, cvars, contentFile, metadataFile, bookMd, metadata, contentSorted,
     lastTocItemIndex, ai, aindex, output, apc, arun, asynth, firstDoc, foldvars,
     cleanvars >>

\* part_000 lines 481-487: the page image of iteration nameIndex is written
WriteName ==
  /\ npc = "capture"
  /\ Len(written) < MaxNames /\ nameIndex < padUntil
  /\ \E pageNum \in NamePageNumbers :
       written' = Append(written,
                    [ index |-> nameIndex, page |-> pageNum,
                      path |-> ScreenshotPath(bookId, nameIndex, pageNum,
                                              IndexPad(padUntil)) ])
  /\ nameIndex' = nameIndex + 1
  /\ UNCHANGED << nameframe, bookId, padUntil, parsed, npc >>

\* the capture run ends; the transcription stage is started on its files
EndCapture ==
  /\ npc = "capture" /\ written # <<>>
  /\ npc' = "ocr"
  /\ UNCHANGED << nameframe, bookId, padUntil, nameIndex, written, parsed >>

\* lines 31-41, for every file the glob of line 18 finds
ParseNames ==
  /\ npc = "ocr"
  /\ parsed' = [ k \in 1..Len(written) |-> ParseScreenshot(written[k].path) ]
  /\ npc' = "done"
  /\ UNCHANGED << nameframe, bookId, padUntil, nameIndex, written >>

NNext ==
  \/ WriteName
  \/ EndCapture
  \/ ParseNames

(***************************************************************************)
(* The specifications.  A stage that is not running keeps its variables at *)
(* fixed values.                                                           *)
(***************************************************************************)
TIdle ==
  /\ pageScreenshots = <<>> /\ concurrency = 0 /\ maxRetriesDefault = 0
  /\ tpc = <<>> /\ retries = <<>> /\ hist = <<>> /\ calls = <<>>
  /\ requests = <<>>
  /\ waitMs = <<>> /\ waits = <<>> /\ results = <<>> /\ completed = <<>>
  /\ contentJson = <<>> /\ mainpc = "idle"

CIdle ==
  /\ viewer = [page |-> undefined, sig |-> "", img |-> ""]
  /\ frozen = FALSE /\ frozenAt = -1
  /\ viewerTotal = undefined /\ maxPagesEnv = 0 /\ maxVerifyRetries = 0
  /\ total = 0 /\ captureUntil = 0
  /\ cpc = "idle" /\ i = 0
  /\ attempt = <<>> /\ episode = <<>> /\ borrows = 0 /\ waitTrace = <<>>
  /\ discovery = "pending"
  /\ changeSeen = FALSE /\ extraNav = FALSE /\ navBeforeFirst = FALSE
  /\ st = [page |-> undefined, sig |-> ""]
  /\ brBefore = [page |-> undefined, sig |-> ""]
  /\ tried = 0 /\ advFrom = "tail" /\ advStep = 1
  /\ lastSig = "" /\ lastPageNum = -1 /\ lastHash = ""
  /\ hash = "" /\ firstHash = "" /\ recaptures = 0
  /\ pages = <<>> /\ files = <<>>
  /\ decision = NoDecision
  /\ metadataJson = <<>>

AIdle ==
  /\ contentFile = <<>> /\ metadataFile = <<>> /\ bookMd = <<>>
  /\ metadata = NoMetadata /\ contentSorted = <<>>
  /\ lastTocItemIndex = 0 /\ ai = 0 /\ aindex = 0
  /\ output = NoDocument
  /\ apc = "idle" /\ arun = 1 /\ asynth = <<>> /\ firstDoc = <<>>
  /\ foldIn = <<>> /\ foldOut = <<>> /\ fpc = "idle"
  /\ rawText = <<>> /\ cleaned = <<>> /\ clpc = "idle"
  /\ NIdle

FInit ==
  /\ contentFile = <<>> /\ metadataFile = <<>> /\ bookMd = <<>>
  /\ metadata = NoMetadata /\ contentSorted = <<>>
  /\ lastTocItemIndex = 0 /\ ai = 0 /\ aindex = 0
  /\ output = NoDocument
  /\ apc = "idle" /\ arun = 1 /\ asynth = <<>> /\ firstDoc = <<>>
  /\ foldIn \in FoldInputs /\ foldOut = <<>> /\ fpc = "in"
  /\ rawText = <<>> /\ cleaned = <<>> /\ clpc = "idle"
  /\ NIdle

\* a response text is about to be cleaned
ClInit ==
  /\ contentFile = <<>> /\ metadataFile = <<>> /\ bookMd = <<>>
  /\ metadata = NoMetadata /\ contentSorted = <<>>
  /\ lastTocItemIndex = 0 /\ ai = 0 /\ aindex = 0
  /\ output = NoDocument
  /\ apc = "idle" /\ arun = 1 /\ asynth = <<>> /\ firstDoc = <<>>
  /\ foldIn = <<>> /\ foldOut = <<>> /\ fpc = "idle"
  /\ rawText \in RawTexts /\ cleaned = <<>> /\ clpc = "in"
  /\ NIdle

TNext ==
  \/ \E k \in Images : ReadFile(k)
  \/ \E k \in Images : SendRequest(k)
  \/ \E k \in Images : Receive(k)
  \/ \E k \in Images : DelayDone(k)
  \/ WriteContent

InitTranscribe == TInit /\ CIdle /\ AIdle

InitCapture == CInit /\ TIdle /\ AIdle

InitRetry == RInit /\ CIdle /\ AIdle

InitAssemble == AInit /\ TIdle /\ CIdle

InitFold == FInit /\ TIdle /\ CIdle

InitClean == ClInit /\ TIdle /\ CIdle

InitNames == NInit /\ TIdle /\ CIdle

\* either stage is started on the files it finds
InitStages == (PInit /\ CIdle /\ AIdle) \/ (AInit /\ TIdle /\ CIdle)

StagesNext ==
  \/ CheckScreenshots
  \/ TNext
  \/ ANext

SpecTranscribe == InitTranscribe /\ [][TNext]_vars

SpecCapture == InitCapture /\ [][CNext]_vars

\* the transcription stage over one image and a long response sequence
SpecRetry == InitRetry /\ [][TNext]_vars

SpecAssemble == InitAssemble /\ [][ANext]_vars

\* the text fold as a function of one text
SpecFold == InitFold /\ [][ApplyFold]_vars

\* the transcription stage and the export stage from their first line on
SpecStages == InitStages /\ [][StagesNext]_vars

\* the page files' names from the capture to the transcription stage
SpecNames == InitNames /\ [][NNext]_vars

\* the response cleaning as a function of one text
SpecClean == InitClean /\ [][ApplyClean]_vars

(***************************************************************************)
(* Properties of the transcription stage (SpecTranscribe).                 *)
(***************************************************************************)
Written == mainpc = "written"
ContentList == contentJson[1]
ChunkImages == { ContentList[n].screenshot : n \in 1..Len(ContentList) }

\* a refusal as the specification words it: a cleaned text of fewer
\* than 100 characters that carries the apology
RefusalResponse(res) == ~res.throws /\ res.len > 0 /\ res.len < 100 /\ res.sorry
OnlyRefusals(k) == \A n \in 1..Len(hist[k]) : RefusalResponse(hist[k][n])
NonThrowing(k) == { n \in 1..Len(hist[k]) : ~hist[k][n].throws }

\* C1: at every moment the number of recognition requests in flight is at
\* most the configured concurrency.
CX_C1_InFlightWithinConcurrency == Cardinality(InFlight) <= concurrency

\* C2: an image whose every response is a refusal makes at most R (>= 1)
\* recognition calls, its task ends at the R-th refusal, and it has no chunk:
\* neither in its result slot nor in content.json.
Thm_C2_RefusalsBounded ==
  \A k \in Images :
    OnlyRefusals(k) =>
      /\ calls[k] <= maxRetriesDefault
      /\ results[k] = <<>>
      /\ (Len(hist[k]) = maxRetriesDefault => tpc[k] = "caught")
      /\ (Written => k \notin ChunkImages)

Wit_C2_RefusalsBounded ==
  /\ Written
  /\ maxRetriesDefault = 2
  /\ \E k \in Images :
       /\ OnlyRefusals(k) /\ Len(hist[k]) = 2 /\ calls[k] = 2
       /\ tpc[k] = "caught" /\ k \notin ChunkImages

\* C3: a permanently failing image does not abort the run: the stage is
\* running until it has written content.json, which holds a chunk, with the
\* accepted text, for every image whose recognition succeeded; and the
\* attempts of an image depend on its own responses only: its counter counts
\* its own responses, its backoff follows its own attempt number, and it is
\* given up only after its own R-th response.
Thm_C3_PerImageIsolation ==
  /\ mainpc \in {"running", "written"}
  /\ Written =>
       \A j \in Images :
         tpc[j] = "done" =>
           \E n \in 1..Len(ContentList) :
             /\ ContentList[n].screenshot = j
             /\ ContentList[n].text = CleanText(hist[j][Len(hist[j])])
  /\ \A j \in Images :
       /\ retries[j] = Cardinality(NonThrowing(j))
       /\ calls[j] = Len(hist[j]) + (IF tpc[j] = "await" THEN 1 ELSE 0)
       /\ (tpc[j] = "delay" => waitMs[j] = Min(500 * Len(hist[j]), 5000))
       /\ (tpc[j] = "caught" /\ ~hist[j][Len(hist[j])].throws
             => Len(hist[j]) >= maxRetriesDefault)

Wit_C3_PerImageIsolation ==
  /\ Written
  /\ maxRetriesDefault = 2
  /\ Len(completed) = 2
  /\ LET f == completed[1]
         g == completed[2]
     IN /\ tpc[f] = "caught" /\ OnlyRefusals(f) /\ Len(hist[f]) = 2
        /\ tpc[g] = "done" /\ Len(hist[g]) = 2 /\ RefusalResponse(hist[g][1])
        /\ g \in ChunkImages

\* the sort key of a chunk's page number: a missing one sorts last
PageKey(c) == IF c.page = undefined THEN MAX_SAFE_INTEGER ELSE c.page

\* C4: whatever the order in which the tasks complete, content.json holds
\* exactly one chunk per successful image, in ascending capture index and,
\* within one capture index, ascending page number (a missing one last); the
\* file names being distinct, that list is unique.
Thm_C4_SortedWhateverTheOrder ==
  Written =>
    /\ ChunkImages = { k \in Images : tpc[k] = "done" }
    /\ Len(ContentList) = Cardinality(ChunkImages)
    /\ \A n \in 1..Len(ContentList) :
         /\ ContentList[n].index = pageScreenshots[ContentList[n].screenshot].index
         /\ ContentList[n].page = pageScreenshots[ContentList[n].screenshot].page
    /\ \A n \in 1..(Len(ContentList) - 1) :
         \/ ContentList[n].index < ContentList[n + 1].index
         \/ /\ ContentList[n].index = ContentList[n + 1].index
            /\ PageKey(ContentList[n]) < PageKey(ContentList[n + 1])

Wit_C4_SortedWhateverTheOrder ==
  /\ Written
  /\ Len(ContentList) = 2
  /\ ContentList[1].index = ContentList[2].index
  /\ ContentList[1].screenshot = 2
  /\ completed = << 1, 2 >>

(***************************************************************************)
(* Properties of one image's retry loop (SpecRetry).                       *)
(***************************************************************************)
\* an acceptable response: a text that is neither empty nor a refusal
AcceptableResponse(res) == ~res.throws /\ res.len > 0 /\ ~(res.len < 100 /\ res.sorry)

\* the chunks of content.json that belong to image k
ChunksOf(k) == { n \in 1..Len(ContentList) : ContentList[n].screenshot = k }

\* C15: an image refused k times (k < R) is tried again, and when the next
\* response is acceptable, exactly k+1 recognition calls were made for it, none
\* is made afterwards, and content.json holds one chunk for the image, with
\* the cleaned text of the accepted response.
Thm_C15_AcceptedAfterRefusals ==
  \A j \in Images :
    LET n == Len(hist[j])
    IN /\ (OnlyRefusals(j) /\ n < maxRetriesDefault) =>
            tpc[j] \in {"read", "call", "await", "delay"}
       /\ ( /\ n >= 1
            /\ AcceptableResponse(hist[j][n])
            /\ \A m \in 1..(n - 1) : RefusalResponse(hist[j][m]) ) =>
            /\ n - 1 < maxRetriesDefault
            /\ calls[j] = n
            /\ tpc[j] = "done"
            /\ results[j] = << Chunk(j, CleanText(hist[j][n])) >>
            /\ Written =>
                 /\ Cardinality(ChunksOf(j)) = 1
                 /\ \A c \in ChunksOf(j) :
                      ContentList[c].text = CleanText(hist[j][n])

Wit_C15_AcceptedAfterRefusals ==
  /\ Written
  /\ maxRetriesDefault = 3
  /\ Len(hist[1]) = 3 /\ calls[1] = 3
  /\ RefusalResponse(hist[1][1]) /\ RefusalResponse(hist[1][2])
  /\ AcceptableResponse(hist[1][3]) /\ hist[1][3].sorry
  /\ Len(ContentList) = 1

\* C19: for every sequence of responses, empty ones included, at most R
\* recognition calls are made for one image.
CX_C19_CallsWithinBound ==
  \A k \in Images : calls[k] <= maxRetriesDefault

\* C20: a refusal at attempt k below the bound is followed by a wait of
\* min(500*k, 5000) ms, so no wait exceeds 5000 ms and the waits do not
\* decrease; nothing else is followed by a wait: not an empty response, not
\* an accepted one, not the refusal that reaches the bound.
Thm_C20_BackoffSchedule ==
  \A k \in Images :
    /\ \A n \in 1..Len(waits[k]) :
         LET w == waits[k][n]
         IN /\ w.attempt \in 1..Len(hist[k])
            /\ RefusalResponse(hist[k][w.attempt])
            /\ w.attempt < maxRetriesDefault
            /\ w.ms = (IF 500 * w.attempt < 5000 THEN 500 * w.attempt ELSE 5000)
            /\ w.ms <= 5000
            /\ n > 1 => /\ waits[k][n - 1].attempt < w.attempt
                        /\ waits[k][n - 1].ms <= w.ms
    /\ \A a \in 1..Len(hist[k]) :
         (RefusalResponse(hist[k][a]) /\ a < maxRetriesDefault) =>
           \E n \in 1..Len(waits[k]) : waits[k][n].attempt = a
    /\ (tpc[k] = "delay") <=> (waitMs[k] > 0)
    /\ tpc[k] = "delay" =>
         /\ waits[k] # <<>>
         /\ waits[k][Len(waits[k])] = [attempt |-> Len(hist[k]), ms |-> waitMs[k]]

Wit_C20_BackoffSchedule ==
  /\ maxRetriesDefault = 12
  /\ tpc[1] = "delay" /\ waitMs[1] = 5000
  /\ Len(hist[1]) = 11
  /\ Len(waits[1]) = 9
  /\ waits[1][1] = [attempt |-> 1, ms |-> 500]
  /\ waits[1][8] = [attempt |-> 10, ms |-> 5000]
  /\ IsEmptyText(CleanText(hist[1][2])) /\ IsEmptyText(CleanText(hist[1][3]))

(***************************************************************************)
(* Properties of the capture loop (SpecCapture).                           *)
(***************************************************************************)
\* C5: the recorded pages carry the capture indices 0, 1, ..., n-1 in order.
Thm_C5_IndicesGapFree ==
  \A n \in 1..Len(pages) : pages[n].index = n - 1

Wit_C5_IndicesGapFree ==
  /\ Len(pages) >= 2
  /\ cpc = "write"
  /\ tried >= 1
  /\ recaptures = 1

\* C6: a candidate whose hash equals the previous capture's is taken again
\* exactly once before it is written, also when the second image is still
\* identical; any other candidate, and the first capture, is never retaken.
Thm_C6_OneRecapture ==
  /\ recaptures <= 1
  /\ (i = 0 => recaptures = 0)
  /\ cpc = "write" =>
       recaptures = (IF firstHash = lastHash /\ i > 0 THEN 1 ELSE 0)

Wit_C6_OneRecapture ==
  /\ cpc = "write" /\ i > 0
  /\ recaptures = 1
  /\ hash = lastHash

\* C7: no two consecutively written page images have the same content hash.
CX_C7_NoConsecutiveDuplicate ==
  \A n \in 1..(Len(files) - 1) : files[n] # files[n + 1]

\* C8: once the viewer has stopped reacting to navigation, at most the
\* capture of the iteration under way is still made: the loop stops early and
\* captures no further page, whether or not the viewer reports page numbers.
CX_C8_StagnationStops ==
  frozen => Len(pages) <= frozenAt + 1

\* C9: at termination with at least one page captured and no total reported
\* by the viewer, metadata.json is written and both TOC entries' total and
\* the End entry's page equal the page number of the last captured page.
Thm_C9_DerivedTotal ==
  /\ cpc = "done" => metadataJson # <<>>
  /\ (metadataJson # <<>> /\ Len(pages) >= 1 /\ viewerTotal = undefined) =>
       LET toc == metadataJson[1].toc
           lastPage == pages[Len(pages)].page
       IN /\ toc[1].total = lastPage
          /\ toc[2].total = lastPage
          /\ toc[2].page = lastPage

Wit_C9_DerivedTotal ==
  /\ cpc = "done" /\ metadataJson # <<>>
  /\ viewerTotal = undefined
  /\ Len(pages) >= 1
  /\ decision.site = "guard_exit" /\ ~decision.advanced
  /\ tried = maxVerifyRetries /\ maxVerifyRetries = 2
  /\ metadataJson[1].toc[2].page # total

\* C10: every advancement decision (the checks of advanceOnce and the guard
\* of the loop) says "advanced" exactly when the observed page number differs
\* from the one of the previous capture's observation or the signature
\* differs from that observation's.
CX_C10_AdvancedIffEitherDiffers ==
  decision.site # "none" =>
    (decision.advanced <=>
       (decision.page # decision.prevPage \/ decision.sig # decision.prevSig))

\* C11: the loop captures before it advances and advances once per
\* iteration: no advance is issued before the first page is written, and
\* between two writes no advance is issued once an advance has been seen to
\* take effect.
CX_C11_OneAdvancePerCapture == ~navBeforeFirst /\ ~extraNav

\* C17: when the reader is found neither by the first discovery nor after the
\* fallback to the stream URL, the run is aborted: no page image is written,
\* no page recorded and no metadata.json written; whatever is written is
\* written after the reader was found.
Thm_C17_ReaderMissingAborts ==
  /\ discovery = "missing" =>
       cpc = "aborted" /\ files = <<>> /\ pages = <<>> /\ metadataJson = <<>>
  /\ (files # <<>> \/ metadataJson # <<>>) => discovery = "found"

Wit_C17_ReaderMissingAborts ==
  discovery = "missing" /\ cpc = "aborted" /\ files = <<>> /\ metadataJson = <<>>

(***************************************************************************)
(* Properties of the export stage (SpecAssemble, SpecFold).                *)
(***************************************************************************)
\* a newline that has no newline next to it
SingleNewline(t, n) ==
  /\ t[n] = "LF"
  /\ (n = 1 \/ t[n - 1] # "LF")
  /\ (n = Len(t) \/ t[n + 1] # "LF")

\* the fold as the specification words it: carriage returns removed, a run
\* of two or more newlines one paragraph break, a single newline one space
ParagraphFold(text) ==
  LET t == CollapseBreaks(RemoveCR(text))
  IN Trim([ n \in 1..Len(t) |-> IF SingleNewline(t, n) THEN "SP" ELSE t[n] ])

\* C12: the fold removes carriage returns, turns every run of two or more
\* newlines into one paragraph break (two newlines) and every single newline
\* into one space.
CX_C12_ParagraphFold ==
  fpc = "out" => foldOut = ParagraphFold(foldIn)

Sections == output.sections

\* C13: walking the TOC, the chunk cursor never decreases and never exceeds
\* the number of chunks: every section starts where the previous one ended
\* and ends at or after its start, at most at the end of the chunk list.
Thm_C13_CursorMonotone ==
  /\ 0 <= aindex /\ aindex <= Len(contentSorted)
  /\ \A n \in 1..Len(Sections) :
       /\ Sections[n].from <= Sections[n].to
       /\ Sections[n].to <= Len(contentSorted)
       /\ Sections[n].from = (IF n = 1 THEN 0 ELSE Sections[n - 1].to)
  /\ Sections # <<>> => aindex = Sections[Len(Sections)].to

\* the boundary search finds a chunk that the cursor has already passed
Wit_C13_CursorMonotone ==
  /\ apc = "sections"
  /\ Len(Sections) >= 2
  /\ LET sec == Sections[Len(Sections)]
         found == FindIndex(contentSorted, metadata.toc[ai + 1].page)
     IN /\ metadata.toc[ai].page # undefined
        /\ metadata.toc[ai + 1].page # undefined
        /\ found # -1 /\ found < sec.from
        /\ sec.from > 0 /\ sec.to = sec.from

Thm_C16_SortIdempotent ==
  /\ apc \in {"tocpass", "sections", "done"} => contentSorted = contentFile
  /\ SortChunks(contentFile) = contentFile

Wit_C16_SortIdempotent ==
  /\ apc = "tocpass"
  /\ Len(contentSorted) = 3
  /\ contentSorted[1].index = contentSorted[2].index
  /\ contentSorted[2].page > contentSorted[3].page

\* C18: when the metadata is synthesized, the document has the single section
\* "Content", which holds the folded text of every chunk of content.json.
CX_C18_ContentSpansAll ==
  (apc = "done" /\ asynth[arun]) =>
    /\ Len(Sections) = 1
    /\ Sections[1].title = "Content"
    /\ Sections[1].from = 0 /\ Sections[1].to = Len(contentFile)
    /\ Sections[1].text = JoinFolded(contentFile)

\* the strategies of one advanceOnce call in their order: the click follows
\* the native next, the key press the click, each only after an observation
\* that the call took as no change; the call returns at the first
\* observation it takes as a change, or after the key press
EscalationOrder ==
  /\ Len(attempt) <= 3
  /\ \A n \in 1..Len(attempt) :
       /\ attempt[n].strategy = (CASE n = 1 -> "next" [] n = 2 -> "click" [] OTHER -> "key")
       /\ n < Len(attempt) => ~attempt[n].changed
  /\ cpc = "adv" =>
       /\ Len(attempt) = advStep - 1
       /\ \A n \in 1..Len(attempt) : ~attempt[n].changed
  /\ (cpc # "adv" /\ attempt # <<>>) =>
       (attempt[Len(attempt)].changed \/ Len(attempt) = 3)
  /\ (cpc \in {"borrow", "retry_exit"} /\ attempt # <<>>) =>
       /\ episode # <<>>
       /\ episode[Len(episode)] = attempt[Len(attempt)].changed

\* an observation against the one the previous capture was made on
DiffersFromPrevious(entry) ==
  entry.page # entry.prevPage \/ entry.sig # entry.prevSig

\* C21: one advance attempt issues the native next, then the click on the
\* next control, then the key press, each only when no change was detected
\* after the one before, and it reports "changed" exactly when the
\* observation after the last strategy tried differs from the previous
\* page number or signature.
CX_C21_StrategiesInOrder ==
  /\ EscalationOrder
  /\ \A n \in 1..Len(attempt) :
       attempt[n].changed <=> DiffersFromPrevious(attempt[n])

\* C22: in one iteration the retry loop calls advanceOnce at most
\* IA_MAX_RETRIES times, retries the borrow after every call that reported no
\* change, stops at the first call that reports a change, and the run is
\* ended early only after IA_MAX_RETRIES calls that all reported no change.
Thm_C22_RetryEpisodeBounded ==
  /\ Len(episode) <= maxVerifyRetries
  /\ \A n \in 1..(Len(episode) - 1) : ~episode[n]
  /\ borrows = Cardinality({ n \in 1..Len(episode) : ~episode[n] })
                 - (IF cpc = "borrow" THEN 1 ELSE 0)
  /\ (episode # <<>> /\ episode[Len(episode)]) =>
       ~(cpc \in {"retry", "borrow"} \/ (cpc = "adv" /\ advFrom = "retry"))
  /\ (decision.site = "guard_exit" /\ ~decision.advanced) =>
       /\ cpc \in {"finalize", "done"}
       /\ Len(episode) = maxVerifyRetries
       /\ \A n \in 1..Len(episode) : ~episode[n]

Wit_C22_RetryEpisodeBounded ==
  /\ maxVerifyRetries = 2
  /\ episode = << FALSE, TRUE >>
  /\ borrows = 1
  /\ cpc = "write"

\* the cap of the claim: the viewer's total, limited by IA_MAX_PAGES when that
\* is positive; with no total, IA_MAX_PAGES if positive, else 9999
PageCap ==
  IF viewerTotal # undefined /\ viewerTotal > 0
    THEN (IF maxPagesEnv > 0 /\ maxPagesEnv < viewerTotal THEN maxPagesEnv ELSE viewerTotal)
    ELSE (IF maxPagesEnv > 0 THEN maxPagesEnv ELSE 9999)

\* what is left of one iteration at each position of the loop: a retry round
\* is the call, up to three strategies and the borrow, six steps at most
RankTop == 20 + 6 * (maxVerifyRetries + 1)
IterationRank ==
  CASE cpc = "top" -> RankTop
    [] cpc = "retry" -> 20 + 6 * (maxVerifyRetries - tried) + 5
    [] cpc = "adv" /\ advFrom = "retry" ->
         20 + 6 * (maxVerifyRetries - tried) + 5 - advStep
    [] cpc = "borrow" -> 20 + 6 * (maxVerifyRetries - tried) + 1
    [] cpc = "retry_exit" -> 19
    [] cpc = "stable" -> 18
    [] cpc = "hashcheck" -> 17
    [] cpc = "write" -> 16
    [] cpc = "adv" /\ advFrom # "retry" -> 16 - advStep
    [] cpc = "finalize" -> 1
    [] OTHER -> 0

\* a bound on the steps the run still takes
StepsLeft ==
  CASE cpc = "discover" -> (captureUntil + 1) * RankTop + 2
    [] cpc = "fallback" -> (captureUntil + 1) * RankTop + 1
    [] cpc \in {"done", "aborted"} -> 0
    [] cpc = "finalize" -> 1
    [] OTHER -> (captureUntil - i) * RankTop + IterationRank

\* C23: the number of captured pages never exceeds the cap (the viewer's
\* total limited by IA_MAX_PAGES when positive; IA_MAX_PAGES if positive,
\* otherwise 9999, when the viewer reports no total), and the loop
\* terminates: every step of the run lowers a non-negative bound on the
\* steps left, so no run goes on for ever.
Thm_C23_CapAndTermination ==
  [][ /\ Len(pages') <= PageCap'
      /\ StepsLeft' >= 0
      /\ frozen' = frozen => StepsLeft' < StepsLeft ]_vars

Wit_C23_CapAndTermination ==
  /\ cpc = "done"
  /\ viewerTotal = 2 /\ maxPagesEnv = 1
  /\ Len(pages) = 1 /\ PageCap = 1
  /\ ~frozen

AtOrAfter(p) ==
  { n \in 1..Len(contentSorted) :
      contentSorted[n].page # undefined /\ contentSorted[n].page >= p }

\* the end boundary the next entry gives, as a count of chunks before it
BoundaryOf(nextTocItem) ==
  IF nextTocItem.page = undefined \/ AtOrAfter(nextTocItem.page) = {}
    THEN Len(contentSorted)
    ELSE (CHOOSE n \in AtOrAfter(nextTocItem.page) :
            \A m \in AtOrAfter(nextTocItem.page) : n <= m) - 1

\* C24: the section of an entry with a page ends at the first chunk, in
\* sorted order, whose page is at or after the next entry's page, but not
\* before the cursor; at the end of the chunk list when there is no such
\* chunk or the next entry has no page; its body is the chunks from the
\* cursor up to that boundary.
Thm_C24_SectionBoundary ==
  \A n \in 1..Len(Sections) :
    LET sec == Sections[n]
        boundary == BoundaryOf(metadata.toc[sec.entry + 2])
    IN /\ sec.to = (IF boundary < sec.from THEN sec.from ELSE boundary)
       /\ sec.text = JoinFolded(SubSeq(contentSorted, sec.from + 1, sec.to))
       /\ sec.title = metadata.toc[sec.entry + 1].title

\* a section cut at a chunk found by the search, and one ending at the end
\* of the list because the next entry has no page
Wit_C24_SectionBoundary ==
  /\ apc = "done" /\ Len(Sections) = 2
  /\ Len(contentSorted) = 3
  /\ Sections[1].from = 0 /\ Sections[1].to = 1
  /\ contentSorted[2].page = metadata.toc[Sections[1].entry + 2].page
  /\ metadata.toc[Sections[2].entry + 2].page = undefined
  /\ Sections[2].to = 3

\* the TOC entries, 0-based, that have a section in the document
Sectioned == { Sections[n].entry : n \in 1..Len(Sections) }

\* C25: an entry without a page produces no section and leaves the cursor
\* where it was, and the last entry never produces a section: the sections
\* are those of the entries with a page that the loop has passed, in order,
\* none for the last entry, and the cursor is the end of the last section.
Thm_C25_SkippedEntries ==
  apc \in {"sections", "done"} =>
    /\ \A n \in 1..Len(Sections) :
         /\ metadata.toc[Sections[n].entry + 1].page # undefined
         /\ Sections[n].entry < Len(metadata.toc) - 1
         /\ n > 1 => Sections[n - 1].entry < Sections[n].entry
    /\ \A e \in 0..(ai - 1) :
         (e \in Sectioned) <=> metadata.toc[e + 1].page # undefined
    /\ aindex = (IF Sections = <<>> THEN 0 ELSE Sections[Len(Sections)].to)

\* an entry without a page is passed after a section was made, and the last
\* entry has a page and no section
Wit_C25_SkippedEntries ==
  /\ apc = "done" /\ Len(metadata.toc) = 3
  /\ metadata.toc[2].page = undefined
  /\ metadata.toc[3].page # undefined
  /\ Sectioned = {0}
  /\ Len(contentSorted) = 2 /\ aindex = 2

\* the titles of the entries that have a section
SectionedTitles == [ n \in 1..Len(Sections) |-> Sections[n].title ]

\* C29: the rendered table of contents lists exactly the entries that have a
\* page and are not past the last entry used for sectioning; an entry that
\* produces no section is not listed.
CX_C29_TocListsSectioned ==
  apc = "done" => output.toc = SectionedTitles

\* C26: of the requests made for one image the first and the second are
\* sent with temperature 0 and every later one with 0.5; the first three are
\* sent without the extra clause of the instruction and every one from the
\* fourth on with it; the position of the request among the image's own
\* requests decides both.
Thm_C26_EscalationSchedule ==
  \A k \in Images :
    /\ Len(requests[k]) = calls[k]
    /\ \A n \in 1..Len(requests[k]) :
         /\ requests[k][n].temperature = (IF n <= 2 THEN 0 ELSE 5)
         /\ requests[k][n].justify = (n >= 4)

Wit_C26_EscalationSchedule ==
  /\ Len(requests[1]) = 5
  /\ requests[1][2].temperature = 0 /\ requests[1][3].temperature = 5
  /\ ~requests[1][3].justify /\ requests[1][4].justify
  /\ RefusalResponse(hist[1][1]) /\ hist[1][2].len = 0 /\ ~hist[1][2].throws
  /\ maxRetriesDefault = 12

\* C28: in content.json as written there is at most one chunk per page
\* image, no chunk has an empty text, no chunk's text is a refusal, and an
\* image whose recognition failed has no chunk.
Thm_C28_ChunksAreTexts ==
  Written =>
    /\ \A k \in Images :
         /\ Cardinality(ChunksOf(k)) <= 1
         /\ tpc[k] = "caught" => ChunksOf(k) = {}
         /\ tpc[k] = "done" => Cardinality(ChunksOf(k)) = 1
    /\ \A n \in 1..Len(ContentList) :
         /\ ContentList[n].screenshot \in Images
         /\ ContentList[n].text.len > 0
         /\ ~(ContentList[n].text.len < 100 /\ ContentList[n].text.sorry)
    /\ Len(ContentList) = Cardinality({ k \in Images : tpc[k] = "done" })

\* one image failed after an empty response and a refusal, the other has
\* its chunk, a long text with an apology in it
Wit_C28_ChunksAreTexts ==
  /\ Written
  /\ \E k \in Images :
       /\ tpc[k] = "caught" /\ Len(hist[k]) = 2
       /\ hist[k][1].len = 0 /\ ~hist[k][1].throws
       /\ RefusalResponse(hist[k][2])
  /\ Len(ContentList) = 1
  /\ ContentList[1].text.sorry

(***************************************************************************)
(* Properties of the response cleaning (SpecClean).                        *)
(***************************************************************************)
\* the lines of a text, split at its line feeds
RECURSIVE SplitLines(_)
SplitLines(t) ==
  IF \A n \in 1..Len(t) : t[n] # "LF" THEN << t >>
  ELSE LET q == CHOOSE n \in 1..Len(t) : t[n] = "LF" /\ \A m \in 1..(n - 1) : t[m] # "LF"
       IN << SubSeq(t, 1, q - 1) >> \o SplitLines(SubSeq(t, q + 1, Len(t)))

\* the lines of a text, each trimmed, the blank ones left out
TrimmedLines(t) ==
  SelectSeq([ n \in 1..Len(SplitLines(t)) |-> Trim(SplitLines(t)[n]) ],
            LAMBDA line : line # <<>>)

\* a bare page-number line
DigitsOnly(line) == line # <<>> /\ \A n \in 1..Len(line) : IsDigit(line[n])

\* C30: the cleaning removes a bare page-number line only when it is the
\* leading line of the response: the lines of the cleaned text are the
\* trimmed lines of the response, without its leading line when that is a
\* bare page number, so a digits-only line further down is kept; and no line
\* of the cleaned text starts or ends with white space.
CX_C30_LeadingPageLineOnly ==
  clpc = "out" =>
    /\ \A n \in 1..Len(SplitLines(cleaned)) :
         Trim(SplitLines(cleaned)[n]) = SplitLines(cleaned)[n]
    /\ \/ TrimmedLines(cleaned) = TrimmedLines(rawText)
       \/ /\ TrimmedLines(rawText) # <<>>
          /\ DigitsOnly(TrimmedLines(rawText)[1])
          /\ TrimmedLines(cleaned) = Tail(TrimmedLines(rawText))

(***************************************************************************)
(* Properties of the stages' preconditions (SpecStages).                   *)
(***************************************************************************)
\* C31: with no page image the transcription stage aborts before any
\* recognition request and writes no content.json; with an empty
\* content.json the export stage aborts, writes no document and
\* synthesizes no metadata.
Thm_C31_PreconditionsFatal ==
  /\ (mainpc # "idle" /\ pageScreenshots = <<>>) =>
       /\ mainpc \in {"start", "aborted"}
       /\ contentJson = <<>>
       /\ calls = <<>> /\ requests = <<>> /\ completed = <<>>
  /\ (mainpc = "aborted") => pageScreenshots = <<>>
  /\ (apc # "idle" /\ contentFile = <<>>) =>
       /\ apc \in {"load", "aborted"}
       /\ bookMd = <<>> /\ output = NoDocument
       /\ asynth = <<>> /\ metadata = NoMetadata
  /\ (apc = "aborted") => contentFile = <<>>

Wit_C31_PreconditionsFatal ==
  /\ mainpc = "aborted" /\ pageScreenshots = <<>>
  /\ contentJson = <<>>

\* the state of one image's task
TaskOf(k) ==
  << tpc[k], retries[k], hist[k], calls[k], requests[k], waitMs[k], waits[k], results[k] >>

\* image k's call throws in this step
Throws(k) ==
  /\ tpc[k] = "await"
  /\ Len(hist'[k]) = Len(hist[k]) + 1
  /\ hist'[k][Len(hist'[k])].throws

\* C32: an image whose recognition call throws, on whatever attempt, makes
\* no further attempt and has no chunk in content.json, and the step in which
\* the call throws leaves the attempts and results of every other image as
\* they were.
Thm_C32_ThrowEndsImageOnly ==
  [][ /\ \A k \in Images' :
           (\E n \in 1..Len(hist'[k]) : hist'[k][n].throws) =>
              /\ hist'[k][Len(hist'[k])].throws
              /\ \A n \in 1..(Len(hist'[k]) - 1) : ~hist'[k][n].throws
              /\ tpc'[k] = "caught"
              /\ calls'[k] = Len(hist'[k])
              /\ results'[k] = <<>>
              /\ Written' => ChunksOf(k)' = {}
      /\ \A k \in Images :
           Throws(k) => \A j \in Images \ {k} : TaskOf(j)' = TaskOf(j)
      /\ Written' =>
           \A j \in Images' :
             (tpc'[j] = "done") => Cardinality(ChunksOf(j)') = 1 ]_vars

\* one image's second call has thrown, after an empty response; the other
\* image was refused once, then accepted, and has its chunk
Wit_C32_ThrowEndsImageOnly ==
  /\ Written
  /\ \E k, j \in Images :
       /\ k # j
       /\ Len(hist[k]) = 2 /\ ~hist[k][1].throws /\ hist[k][2].throws
       /\ tpc[k] = "caught" /\ ChunksOf(k) = {}
       /\ Len(hist[j]) = 2 /\ RefusalResponse(hist[j][1])
       /\ tpc[j] = "done" /\ Cardinality(ChunksOf(j)) = 1

\* the TOC as the capture stage writes it (part_000, lines 505-515): two
\* entries, the first at page 1, the second at the page number of the last
\* captured page, here the last chunk in sorted order
CaptureToc ==
  /\ ~asynth[arun]
  /\ Len(metadata.toc) = 2
  /\ metadata.toc[1].page = 1
  /\ metadata.toc[2].page = contentSorted[Len(contentSorted)].page

\* the sections that hold the chunk at position n of the sorted list
SectionsHolding(n) ==
  { m \in 1..Len(Sections) : Sections[m].from < n /\ n <= Sections[m].to }

\* C33: with the two-entry TOC of the capture stage every chunk of
\* content.json is in exactly one section of the document, and the sections
\* take consecutive, disjoint slices of the sorted chunks.
CX_C33_ChunksPartitioned ==
  (apc = "done" /\ CaptureToc) =>
    /\ \A n \in 1..Len(contentSorted) : Cardinality(SectionsHolding(n)) = 1
    /\ \A m \in 1..Len(Sections) :
         /\ Sections[m].from = (IF m = 1 THEN 0 ELSE Sections[m - 1].to)
         /\ Sections[m].from <= Sections[m].to
         /\ Sections[m].text = JoinFolded(SubSeq(contentSorted, Sections[m].from + 1, Sections[m].to))

(***************************************************************************)
(* Properties of the page files' names (SpecNames).                        *)
(***************************************************************************)
\* C34: for every page captured with index i and page number p, the
\* transcription stage parses (i, p) from the path of the file written for
\* it, and no two pages of a run are written to the same file.
CX_C34_NameRoundTrip ==
  /\ \A a, b \in 1..Len(written) : a # b => written[a].path # written[b].path
  /\ npc = "done" =>
       \A k \in 1..Len(written) :
         parsed[k] = << written[k].index, written[k].page >>

====
